---- MODULE Spec2Model ----
(***************************************************************************)
(* A model of the EV User Agent (src/User Agent): the reservation status   *)
(* machine, the durable local store with its sync queue (outbox), the      *)
(* background sync pass, and the orchestrator state machine with its       *)
(* external event handlers.                                                *)
(*                                                                         *)
(* The specifications share the variables; each one moves its own group    *)
(* and leaves the others at their initial values:                          *)
(*   SpecReservation  models/reservation_models.py                         *)
(*   SpecStore        storage/local_cache.py, storage/server_sync.py,      *)
(*                    main.py (sync_worker), with process crash/restart    *)
(*   Spec             orchestrator/ua_orchestrator.py and the components   *)
(*                    and clients it calls                                 *)
(*   FairSpec         Spec with the loop thread and the remote calls in    *)
(*                    flight scheduled fairly                              *)
(*   SpecSession      the session branches of the orchestrator loop, the   *)
(*                    session monitor and the preference manager           *)
(*   SpecMonitor      Components/session_monitor.py by itself              *)
(*   SpecRetry        utils/retry_policy.py, CAClient._post_with_retry     *)
(*   SpecRemote       one outbound call of each remote client              *)
(*   SpecContext      the pure methods of the context manager              *)
(*   FairSpecStore    the outbox writers and the sync worker of one        *)
(*                    process, the worker thread scheduled fairly          *)
(*   SpecSessionEvents  one session with _monitor_session statement by     *)
(*                    statement, user decisions and fault alerts           *)
(*   SpecRetryAnyBudget  RetryPolicy.execute with any max_attempts         *)
(***************************************************************************)
EXTENDS Integers, Sequences, FiniteSets, TLC

\* ---- storage: the persisted sync_queue table and the threads that use it
VARIABLES
    sync_queue,       \* the sync_queue table: rowid -> [payload, endpoint]
    sqlite_sequence,  \* AUTOINCREMENT's high-water mark for sync_queue
    push,             \* the push_weights / push_session call in progress
    backend,          \* writes the backend system of record has received
    accepted,         \* history: payloads handed to push_weights / push_session
    assigned,         \* history: rows created by enqueue_sync, in call order,
                      \*   each with the number of crashes before the call
    removed,          \* history: ids passed to remove_sync_item
    postedOk,         \* history: ids whose POST in a sync pass succeeded
    syncPc,           \* sync_worker: "sleep" | "loop" | "remove"
    items,            \* process_sync_queue: the snapshot being iterated
    idx,              \* process_sync_queue: position in the snapshot
    passLog,          \* delivery attempts of the current / last pass
    crashes           \* number of process crashes so far

\* ---- models/reservation_models.py: one Reservation object
VARIABLES
    res,              \* the Reservation's mutable fields
    resCall,          \* the last mark_* call: [op, raised, before]
    resClock          \* datetime.utcnow() as a logical clock

\* ---- orchestrator/ua_orchestrator.py and the objects it owns
VARIABLES
    state,                \* UAOrchestrator.state
    running,              \* UAOrchestrator.running
    cache,                \* LocalCache: the in-memory fields
    rm_ranked_stations,   \* RecommendationManager._ranked_stations
    rm_deferred,          \* RecommendationManager._deferred
    published,            \* history: the last list given to receive_ranked_stations
    lock,                 \* UAOrchestrator._lock: its holder, or NONE
    loopPc,               \* the thread in start(): "not_started" | "cycle" |
                          \*   "ca_request" | "sleep" | "err_sleep" | "exited"
    loopExc,              \* the exception the current iteration raised, or NONE
    lastRequest,          \* outcome of the last charging request:
                          \*   "none" | "stations" | "empty" | "failed"
    userPc,               \* the thread in handle_user_action: "idle" | "confirm"
    userArg,              \* station_id of the confirmation in flight
    userResult,           \* how the last handle_user_action call ended
    userBefore,           \* history: cache.active_reservation when the
                          \*   confirmation in flight was started
    faultPc,              \* the thread in handle_fault_alert: "idle" | "cancel"
    faultArg,             \* reservation_id of the cancellation in flight
    alertInAccept,        \* history: a CRITICAL alert and the ACCEPT waiting
                          \*   for its confirmation: "no" | "arrived" (the
                          \*   alert came while the ACCEPT waits) | "forced"
                          \*   (and has set MONITORING, the ACCEPT still waits)
    microResult,          \* how the last handle_micro_slot_decision call ended
    faultHandled          \* history: reservation_id of the session a
                          \*   CRITICAL alert has ended (handle_fault_alert
                          \*   sent the cancellation and set MONITORING over
                          \*   SESSION_ACTIVE or SESSION_COMPLETED), NONE
                          \*   again once another reservation is confirmed

\* ---- Components/session_monitor.py and the preference manager
VARIABLES
    sm_reservation,       \* SessionMonitor._reservation
    sm_station_location,  \* SessionMonitor._station_location
    sm_last_gps,          \* SessionMonitor._last_gps
    sm_telemetry,         \* SessionMonitor._telemetry: its session_status
    sm_session_start_time,\* SessionMonitor._session_start_time
    now,                  \* datetime.utcnow(), in units of 30 seconds
    sm_eta,               \* what the last update_eta call returned
    sm_origin,            \* history: the reservation the stored telemetry
                          \*   was sent for, the one bound when the last
                          \*   position was recorded, the reservations
                          \*   bound before the current one, and the status
                          \*   of the latest telemetry sent for each
    pm_session_history,   \* PreferenceManager.session_history
    pm_learned            \* history: the sessions fed to update_weights

\* ---- utils/retry_policy.py and CAClient._post_with_retry: one retried call
VARIABLES
    rp,                   \* the client, its configuration and the outcomes
                          \*   of the successive attempts of the wrapped call
    rpPc,                 \* "idle" | "call" | "except" | "done"
    rpCalls,              \* invocations of the wrapped call so far
    rpDelay,              \* the local variable delay
    rpSleeps,             \* history: the arguments of time.sleep, in order
    rpResult              \* NONE, or how the retried call ended

\* ---- Components/context manager.py: one evaluation of its pure methods
VARIABLES
    cmCall,               \* the method evaluated and its arguments
    cmResult              \* None, or what it returned

storeVars == <<sync_queue, sqlite_sequence, push, backend, accepted, assigned,
               removed, postedOk, syncPc, items, idx, passLog, crashes>>
resVars == <<res, resCall, resClock>>
orchVars == <<state, running, cache, rm_ranked_stations, rm_deferred, published,
              lock, loopPc, loopExc, lastRequest, userPc, userArg, userResult,
              userBefore,
              faultPc, faultArg, alertInAccept, microResult, faultHandled>>
monitor == <<sm_reservation, sm_station_location, sm_last_gps, sm_telemetry,
             sm_session_start_time, now, sm_eta, sm_origin>>
sessVars == <<monitor, pm_session_history, pm_learned>>
retryVars == <<rp, rpPc, rpCalls, rpDelay, rpSleeps, rpResult>>
contextVars == <<cmCall, cmResult>>
vars == <<storeVars, resVars, orchVars, sessVars, retryVars, contextVars>>
nonStoreVars == <<resVars, orchVars, sessVars, retryVars, contextVars>>
nonResVars == <<storeVars, orchVars, sessVars, retryVars, contextVars>>
nonOrchVars == <<storeVars, resVars, sessVars, retryVars, contextVars>>
nonSessVars == <<storeVars, resVars, orchVars, retryVars, contextVars>>
nonRetryVars == <<storeVars, resVars, orchVars, sessVars, contextVars>>
nonContextVars == <<storeVars, resVars, orchVars, sessVars, retryVars>>

NONE == "NONE"

\* An Optional[...] field that holds objects: None is the empty tuple, an
\* object x is the one-element tuple of x.
None == <<>>
Some(x) == <<x>>
Get(o) == o[1]

\* ------------------------------------------------------------------ bounds
MaxWrites == 3
MaxCrashes == 1
MaxCalls == 3
MaxAttempts == 3

\* ------------------------------------------------------------ small helpers
SetMax(S) == CHOOSE m \in S : \A x \in S : x <= m
SetMin(S) == CHOOSE m \in S : \A x \in S : m <= x
Max2(a, b) == IF a >= b THEN a ELSE b

(***************************************************************************)
(* models/reservation_models.py                                            *)
(***************************************************************************)
ReservationStatus ==
    {"PENDING", "CONFIRMED", "ACTIVE", "COMPLETED", "CANCELLED", "NO_SHOW", "FAILED"}
CancellationReason == {"USER_CANCELLED", "DELAY", "FAULT", "NO_SHOW", "SYSTEM"}

\* Reservation(...): status is a constructor field (default CONFIRMED), the
\* timing metadata and the cancellation reason start as None.
NewReservation(status) ==
    [status |-> status, activated_at |-> NONE, completed_at |-> NONE,
     cancelled_at |-> NONE, cancellation_reason |-> NONE]

NoCall == [op |-> "none", raised |-> FALSE, before |-> NONE]

InitReservation ==
    /\ res \in {NewReservation(s) : s \in ReservationStatus}
    /\ resCall = NoCall
    /\ resClock = 0

ResIdle ==
    /\ res = NewReservation("CONFIRMED")
    /\ resCall = NoCall
    /\ resClock = 0

\* A mark_* call that raises ValueError: no field is assigned.
ResRaise(op) ==
    /\ res' = res
    /\ resCall' = [op |-> op, raised |-> TRUE, before |-> res.status]

ResReturn(op, r) ==
    /\ res' = r
    /\ resCall' = [op |-> op, raised |-> FALSE, before |-> res.status]

mark_active ==
    /\ UNCHANGED nonResVars
    /\ resClock < MaxCalls
    /\ resClock' = resClock + 1
    /\ IF res.status # "CONFIRMED"
       THEN ResRaise("mark_active")
       ELSE ResReturn("mark_active",
                [res EXCEPT !.status = "ACTIVE", !.activated_at = resClock'])

mark_completed ==
    /\ UNCHANGED nonResVars
    /\ resClock < MaxCalls
    /\ resClock' = resClock + 1
    /\ IF res.status # "ACTIVE"
       THEN ResRaise("mark_completed")
       ELSE ResReturn("mark_completed",
                [res EXCEPT !.status = "COMPLETED", !.completed_at = resClock'])

\* The statuses mark_cancelled refuses.
CancelRefused == {"COMPLETED", "CANCELLED"}

mark_cancelled(reason) ==
    /\ UNCHANGED nonResVars
    /\ resClock < MaxCalls
    /\ resClock' = resClock + 1
    /\ IF res.status \in CancelRefused
       THEN ResRaise("mark_cancelled")
       ELSE ResReturn("mark_cancelled",
                [res EXCEPT !.status = "CANCELLED",
                            !.cancellation_reason = reason,
                            !.cancelled_at = resClock'])

mark_no_show ==
    /\ UNCHANGED nonResVars
    /\ resClock < MaxCalls
    /\ resClock' = resClock + 1
    /\ IF res.status # "CONFIRMED"
       THEN ResRaise("mark_no_show")
       ELSE ResReturn("mark_no_show",
                [res EXCEPT !.status = "NO_SHOW", !.cancelled_at = resClock'])

(***************************************************************************)
(* storage/local_cache.py, storage/database_schema.py                      *)
(***************************************************************************)
\* A payload is a flat Python dict, here a function from keys to values.
\* json.dumps writes it as the list of its key/value pairs, json.loads reads
\* such a list back into a dict.
RECURSIVE DumpKeys(_, _)
DumpKeys(d, keys) ==
    IF keys = {} THEN <<>>
    ELSE LET k == CHOOSE x \in keys : TRUE
         IN <<<<k, d[k]>>>> \o DumpKeys(d, keys \ {k})

JsonDumps(d) == DumpKeys(d, DOMAIN d)

JsonLoads(s) ==
    [k \in {s[i][1] : i \in DOMAIN s} |->
        LET i == CHOOSE j \in DOMAIN s : s[j][1] = k IN s[i][2]]

EmptyTable == <<>>

MaxRowid(q) == IF DOMAIN q = {} THEN 0 ELSE SetMax(DOMAIN q)

\* A rowid table without AUTOINCREMENT: one more than the largest rowid
\* that is in the table now.
NextRowidNoAutoincrement(q, seqno) == MaxRowid(q) + 1

\* id INTEGER PRIMARY KEY AUTOINCREMENT: one more than the largest rowid
\* the table has ever held.
NextRowid(q, seqno) == Max2(seqno, MaxRowid(q)) + 1

\* enqueue_sync: INSERT (payload as JSON text, endpoint) and commit.
EnqueueRow(endpoint, payload) ==
    [payload |-> JsonDumps(payload), endpoint |-> endpoint]

EnqueueSync(q, seqno, endpoint, payload) ==
    LET id == NextRowid(q, seqno)
    IN [queue |-> [i \in DOMAIN q \cup {id} |->
                      IF i = id THEN EnqueueRow(endpoint, payload) ELSE q[i]],
        seqno |-> id,
        id |-> id]

\* get_pending_sync_items: SELECT id, payload, endpoint FROM sync_queue, a
\* scan of the rowid table in ascending rowid.
RECURSIVE ScanRows(_, _)
ScanRows(q, ids) ==
    IF ids = {} THEN <<>>
    ELSE LET m == SetMin(ids)
         IN <<<<m, q[m].payload, q[m].endpoint>>>> \o ScanRows(q, ids \ {m})

GetPendingSyncItems(q) == ScanRows(q, DOMAIN q)

\* A DELETE without its WHERE clause.
RemoveAllSyncItems(q, id) == EmptyTable

\* remove_sync_item: DELETE FROM sync_queue WHERE id=? and commit.
RemoveSyncItem(q, id) == [i \in DOMAIN q \ {id} |-> q[i]]

\* A restart that loses the table (a new or in-memory database file).
RestartTableLost(q) == EmptyTable

\* _initialize_schema on restart: CREATE TABLE IF NOT EXISTS keeps the rows
\* of the database file.
RestartTable(q) == q

(***************************************************************************)
(* storage/server_sync.py                                                  *)
(***************************************************************************)
PushIdle == [pc |-> "idle", endpoint |-> NONE, payload |-> NONE]

\* The payloads of successive writes are distinct: write n carries n.
NextWrite == Cardinality(accepted) + 1
WeightDict(n) == [w_cost |-> n]
SessionDict(n) == [session_id |-> n]

InitStore ==
    /\ sync_queue = EmptyTable
    /\ sqlite_sequence = 0
    /\ push = PushIdle
    /\ backend = {}
    /\ accepted = {}
    /\ assigned = <<>>
    /\ removed = {}
    /\ postedOk = {}
    /\ syncPc = "sleep"
    /\ items = <<>>
    /\ idx = 1
    /\ passLog = <<>>
    /\ crashes = 0

StoreIdle == InitStore

syncThread == <<syncPc, items, idx, passLog>>

\* push_weights / push_session enter their try block: the POST is issued.
PushBegin(endpoint, payload) ==
    /\ push.pc = "idle"
    /\ NextWrite <= MaxWrites
    /\ push' = [pc |-> "post", endpoint |-> endpoint, payload |-> payload]
    /\ accepted' = accepted \cup {<<endpoint, payload>>}
    /\ UNCHANGED <<sync_queue, sqlite_sequence, backend, assigned, removed,
                   postedOk, syncThread, crashes>>
    /\ UNCHANGED nonStoreVars

push_weights == PushBegin("save_weights", WeightDict(NextWrite))

push_session == PushBegin("save_session", SessionDict(NextWrite))

\* The POST returned 2xx: nothing is enqueued.
PushPostOk ==
    /\ push.pc = "post"
    /\ backend' = backend \cup {<<push.endpoint, push.payload>>}
    /\ push' = PushIdle
    /\ UNCHANGED <<sync_queue, sqlite_sequence, accepted, assigned, removed,
                   postedOk, syncThread, crashes>>
    /\ UNCHANGED nonStoreVars

\* The POST raised: the except block enqueues the write.
PushPostFail ==
    /\ push.pc = "post"
    /\ LET e == EnqueueSync(sync_queue, sqlite_sequence, push.endpoint, push.payload)
       IN /\ sync_queue' = e.queue
          /\ sqlite_sequence' = e.seqno
          /\ assigned' = Append(assigned,
                 [id |-> e.id, endpoint |-> push.endpoint, payload |-> push.payload,
                  epoch |-> crashes])
    /\ push' = PushIdle
    /\ UNCHANGED <<backend, accepted, removed, postedOk, syncThread, crashes>>
    /\ UNCHANGED nonStoreVars

\* process_sync_queue: items = get_pending_sync_items().
SyncPassBegin ==
    /\ syncPc = "sleep"
    /\ items' = GetPendingSyncItems(sync_queue)
    /\ idx' = 1
    /\ passLog' = <<>>
    /\ syncPc' = "loop"
    /\ UNCHANGED <<sync_queue, sqlite_sequence, push, backend, accepted,
                   assigned, removed, postedOk, crashes>>
    /\ UNCHANGED nonStoreVars

\* After a failed delivery the loop breaks out of the pass.
NextIndexBreak(i, n) == n + 1

\* After a failed delivery (except: log, sleep(1)) the for loop goes on
\* with the next entry.
NextIndexAfterFailure(i, n) == i + 1

\* Every attempt is followed by the removal of the entry.
RemoveAlways(ok) == TRUE

\* remove_sync_item is the last statement of the try block: it runs only
\* when the POST and raise_for_status did not raise.
RemoveAfterAttempt(ok) == ok

\* One loop iteration: json.loads, POST; on success go on to the removal.
SyncPost(ok) ==
    /\ syncPc = "loop"
    /\ idx <= Len(items)
    /\ LET id == items[idx][1]
           payload == JsonLoads(items[idx][2])
           endpoint == items[idx][3]
       IN /\ passLog' = Append(passLog, [id |-> id, ok |-> ok])
          /\ backend' = IF ok THEN backend \cup {<<endpoint, payload>>} ELSE backend
          /\ postedOk' = IF ok THEN postedOk \cup {id} ELSE postedOk
          /\ IF RemoveAfterAttempt(ok)
             THEN /\ syncPc' = "remove"
                  /\ idx' = idx
             ELSE /\ syncPc' = "loop"
                  /\ idx' = NextIndexAfterFailure(idx, Len(items))
    /\ UNCHANGED <<sync_queue, sqlite_sequence, push, accepted, assigned,
                   removed, items, crashes>>
    /\ UNCHANGED nonStoreVars

SyncPostOk == SyncPost(TRUE)

SyncPostFail == SyncPost(FALSE)

\* self.local_cache.remove_sync_item(item_id)
SyncRemove ==
    /\ syncPc = "remove"
    /\ sync_queue' = RemoveSyncItem(sync_queue, items[idx][1])
    /\ removed' = removed \cup {items[idx][1]}
    /\ idx' = idx + 1
    /\ syncPc' = "loop"
    /\ UNCHANGED <<sqlite_sequence, push, backend, accepted, assigned,
                   postedOk, items, passLog, crashes>>
    /\ UNCHANGED nonStoreVars

\* process_sync_queue raises before its loop (get_pending_sync_items):
\* sync_worker's except logs the error and sleeps, the while loop goes on.
\* The locals of the call are gone.
SyncPassRaises ==
    /\ syncPc = "sleep"
    /\ items' = <<>>
    /\ idx' = 1
    /\ passLog' = <<>>
    /\ syncPc' = "sleep"
    /\ UNCHANGED <<sync_queue, sqlite_sequence, push, backend, accepted,
                   assigned, removed, postedOk, crashes>>
    /\ UNCHANGED nonStoreVars

\* The worker thread ends with its first pass.
SyncPassEndStops ==
    /\ syncPc = "loop"
    /\ idx > Len(items)
    /\ syncPc' = "stopped"
    /\ UNCHANGED <<sync_queue, sqlite_sequence, push, backend, accepted,
                   assigned, removed, postedOk, items, idx, passLog, crashes>>
    /\ UNCHANGED nonStoreVars

\* The for loop is exhausted: back to sync_worker's sleep.
SyncPassEnd ==
    /\ syncPc = "loop"
    /\ idx > Len(items)
    /\ syncPc' = "sleep"
    /\ UNCHANGED <<sync_queue, sqlite_sequence, push, backend, accepted,
                   assigned, removed, postedOk, items, idx, passLog, crashes>>
    /\ UNCHANGED nonStoreVars

\* The process is killed and started again: the threads and their locals
\* are gone, the database file is reopened.
CrashRestart ==
    /\ crashes < MaxCrashes
    /\ crashes' = crashes + 1
    /\ sync_queue' = RestartTable(sync_queue)
    /\ push' = PushIdle
    /\ syncPc' = "sleep"
    /\ items' = <<>>
    /\ idx' = 1
    /\ passLog' = <<>>
    /\ UNCHANGED <<sqlite_sequence, backend, accepted, assigned, removed, postedOk>>
    /\ UNCHANGED nonStoreVars

NextStore ==
    \/ push_weights
    \/ push_session
    \/ PushPostOk
    \/ PushPostFail
    \/ SyncPassBegin
    \/ SyncPostOk
    \/ SyncPostFail
    \/ SyncRemove
    \/ SyncPassEnd
    \/ CrashRestart

NextReservation ==
    \/ mark_active
    \/ mark_completed
    \/ \E reason \in CancellationReason : mark_cancelled(reason)
    \/ mark_no_show

(***************************************************************************)
(* config/ua_config.py (fractions of SoC are written as percent)           *)
(***************************************************************************)
soc_emergency_threshold == 10
soc_high_threshold == 25
soc_medium_threshold == 50
soc_trigger_threshold == 30
max_retries == 3
enable_scheduled_trigger == FALSE
major_delay_threshold_min == 15
no_show_threshold_min == 30
default_avg_speed_kmph == 40

(***************************************************************************)
(* Components/context manager.py                                           *)
(***************************************************************************)
\* What collect_vehicle_data can return. The destination is represented by
\* its great-circle distance from the current position (None: no
\* destination), which is all should_trigger_charging uses of it.
SocSamples == {8, 32}
RangeSamples == {120}
DestinationSamples == {None, Some(200)}
RawVehicleData ==
    [state_of_charge : SocSamples, remaining_range_km : RangeSamples,
     destination : DestinationSamples, user_trigger : BOOLEAN]

\* The boundaries belong to the less urgent tier.
ComputeUrgencyStrict(soc) ==
    IF soc < soc_emergency_threshold THEN "EMERGENCY"
    ELSE IF soc < soc_high_threshold THEN "HIGH"
    ELSE IF soc < soc_medium_threshold THEN "MEDIUM"
    ELSE "LOW"

\* ContextManager.compute_urgency(soc)
compute_urgency(soc) ==
    IF soc <= soc_emergency_threshold THEN "EMERGENCY"
    ELSE IF soc <= soc_high_threshold THEN "HIGH"
    ELSE IF soc <= soc_medium_threshold THEN "MEDIUM"
    ELSE "LOW"

build_vehicle_context(raw) ==
    [state_of_charge |-> raw.state_of_charge,
     remaining_range_km |-> raw.remaining_range_km,
     destination |-> raw.destination,
     urgency_level |-> compute_urgency(raw.state_of_charge)]

scheduled_departure_trigger == FALSE

\* A state of charge at the threshold does not trigger by itself.
ShouldTriggerBelowOnly(ctx, resample) ==
    \/ ctx.state_of_charge < soc_trigger_threshold
    \/ ctx.destination # None /\ ctx.remaining_range_km < Get(ctx.destination)
    \/ resample.user_trigger
    \/ enable_scheduled_trigger /\ scheduled_departure_trigger

\* should_trigger_charging(ctx); resample is the raw data the method
\* collects again for its manual-trigger check.
should_trigger_charging(ctx, resample) ==
    \/ ctx.state_of_charge <= soc_trigger_threshold
    \/ ctx.destination # None /\ ctx.remaining_range_km < Get(ctx.destination)
    \/ resample.user_trigger
    \/ enable_scheduled_trigger /\ scheduled_departure_trigger

\* models/vehicle_context.py: VehicleContext.compute_urgency with its
\* three threshold arguments.
vc_compute_urgency(soc, emergency_threshold, high_threshold, medium_threshold) ==
    IF soc <= emergency_threshold THEN "EMERGENCY"
    ELSE IF soc <= high_threshold THEN "HIGH"
    ELSE IF soc <= medium_threshold THEN "MEDIUM"
    ELSE "LOW"

\* The arguments the pure methods are evaluated on: states of charge around
\* every threshold, ordered threshold triples, destinations around the
\* remaining range.
SocValues == {0, 10, 11, 25, 26, 30, 31, 50, 51, 100}
ThresholdTriples ==
    {t \in SocValues \X SocValues \X SocValues : t[1] < t[2] /\ t[2] < t[3]}
TriggerContexts ==
    {build_vehicle_context(raw) :
        raw \in [state_of_charge : SocValues, remaining_range_km : RangeSamples,
                 destination : {None, Some(120), Some(121)},
                 user_trigger : BOOLEAN]}
ContextCalls ==
    [method : {"ContextManager.compute_urgency"}, soc : SocValues,
     thresholds : {<<soc_emergency_threshold, soc_high_threshold,
                     soc_medium_threshold>>}]
    \cup [method : {"VehicleContext.compute_urgency"}, soc : SocValues,
          thresholds : ThresholdTriples]
    \cup [method : {"should_trigger_charging"}, ctx : TriggerContexts,
          user_trigger : BOOLEAN]

\* No method is being evaluated.
ContextIdle ==
    /\ cmCall = None
    /\ cmResult = None

\* A method is called on some arguments.
InitContext ==
    /\ \E c \in ContextCalls : cmCall = Some(c)
    /\ cmResult = None

ContextReturns(method, value) ==
    /\ cmCall # None
    /\ Get(cmCall).method = method
    /\ cmResult = None
    /\ cmResult' = Some(value)
    /\ UNCHANGED cmCall
    /\ UNCHANGED nonContextVars

EvalComputeUrgency ==
    /\ cmCall # None
    /\ Get(cmCall).method = "ContextManager.compute_urgency"
    /\ ContextReturns("ContextManager.compute_urgency",
                      compute_urgency(Get(cmCall).soc))

EvalVehicleContextComputeUrgency ==
    /\ cmCall # None
    /\ Get(cmCall).method = "VehicleContext.compute_urgency"
    /\ LET t == Get(cmCall).thresholds
       IN ContextReturns("VehicleContext.compute_urgency",
                         vc_compute_urgency(Get(cmCall).soc, t[1], t[2], t[3]))

\* should_trigger_charging(ctx): the second collect_vehicle_data() of the
\* method returns user_trigger.
EvalShouldTriggerCharging ==
    /\ cmCall # None
    /\ Get(cmCall).method = "should_trigger_charging"
    /\ ContextReturns("should_trigger_charging",
                      should_trigger_charging(Get(cmCall).ctx,
                          [user_trigger |-> Get(cmCall).user_trigger]))

NextContext ==
    \/ EvalComputeUrgency
    \/ EvalVehicleContextComputeUrgency
    \/ EvalShouldTriggerCharging

(***************************************************************************)
(* communication/ca_client.py                                              *)
(***************************************************************************)
\* The outcomes of the successive POSTs of one call: TRUE where the POST
\* and raise_for_status pass.
PostOutcomes == [1..max_retries -> BOOLEAN]

\* _post_with_retry: up to max_retries attempts, the first success returns,
\* after the last failure it raises "CA unreachable after retries".
RECURSIVE PostWithRetryFrom(_, _)
PostWithRetryFrom(outcomes, attempt) ==
    IF attempt >= max_retries THEN [ok |-> FALSE, attempts |-> attempt]
    ELSE IF outcomes[attempt + 1] THEN [ok |-> TRUE, attempts |-> attempt + 1]
    ELSE PostWithRetryFrom(outcomes, attempt + 1)

PostWithRetry(outcomes) == PostWithRetryFrom(outcomes, 0)

\* What the Coordinator can answer: ranked station lists (possibly empty)
\* to a charging request, a reservation to a confirmation.
StationIds == {"S1", "S2"}
RankedLists == {<<>>, <<"S1", "S2">>, <<"S2">>}
ReservationIds == {"R1", "R2"}
ReservationOf(rid, sid) ==
    [reservation_id |-> rid, station_id |-> sid, start_time |-> 0]

(***************************************************************************)
(* Components/recommendation_manager.py                                    *)
(***************************************************************************)
\* str.upper() on the action strings the UI sends.
Upper(a) ==
    CASE a = "accept" -> "ACCEPT"
      [] a = "reject" -> "REJECT"
      [] a = "defer" -> "DEFER"
      [] OTHER -> a

StationListed(ranked, sid) == \E i \in 1..Len(ranked) : ranked[i] = sid

\* ACCEPT is passed on without looking the station up.
AcceptErrorUnchecked(ranked, sid) ==
    IF sid = NONE THEN "StationIdRequired" ELSE NONE

\* The two checks of the ACCEPT branch: the ValueError raised, or NONE.
AcceptError(ranked, sid) ==
    IF sid = NONE THEN "StationIdRequired"
    ELSE IF ~StationListed(ranked, sid) THEN "NotInCAList"
    ELSE NONE

\* handle_user_selection: the ValueError it raises (or NONE) and the value
\* of _deferred when it is done.
handle_user_selection(a, sid, ranked, deferred) ==
    LET action == Upper(a)
    IN IF action = "ACCEPT"
       THEN [error |-> AcceptError(ranked, sid), deferred |-> deferred]
       ELSE IF action = "REJECT" THEN [error |-> NONE, deferred |-> deferred]
       ELSE IF action = "DEFER" THEN [error |-> NONE, deferred |-> TRUE]
       ELSE [error |-> "InvalidAction", deferred |-> deferred]

(***************************************************************************)
(* orchestrator/ua_orchestrator.py                                         *)
(***************************************************************************)
UAState ==
    {"IDLE", "MONITORING", "REQUESTING_STATIONS", "AWAITING_USER_SELECTION",
     "RESERVATION_CONFIRMED", "SESSION_ACTIVE", "SESSION_COMPLETED",
     "DEFERRED", "ERROR"}

EmptyCache ==
    [current_vehicle_context |-> None, active_reservation |-> None,
     ranked_stations_cache |-> None, current_session_telemetry |-> NONE,
     expected_arrival_time |-> NONE, pending_micro_slot_offer |-> NONE,
     session_result |-> None]

\* UAOrchestrator.__init__
InitOrch ==
    /\ state = "IDLE"
    /\ running = FALSE
    /\ cache = EmptyCache
    /\ rm_ranked_stations = <<>>
    /\ rm_deferred = FALSE
    /\ published = <<>>
    /\ lock = NONE
    /\ loopPc = "not_started"
    /\ loopExc = NONE
    /\ lastRequest = "none"
    /\ userPc = "idle"
    /\ userArg = NONE
    /\ userResult = "none"
    /\ userBefore = None
    /\ faultPc = "idle"
    /\ faultArg = NONE
    /\ alertInAccept = "no"
    /\ microResult = "none"
    /\ faultHandled = NONE

OrchIdle == InitOrch

loopThread == <<loopPc, loopExc>>
userThread == <<userPc, userArg, userResult, userBefore, lock>>
faultThread == <<faultPc, faultArg>>
history == <<alertInAccept, microResult, faultHandled>>
recommendation == <<rm_ranked_stations, rm_deferred, published>>

\* start(): running = True, state = MONITORING, enter the while loop.
start ==
    /\ loopPc = "not_started"
    /\ running' = TRUE
    /\ state' = "MONITORING"
    /\ loopPc' = "cycle"
    /\ UNCHANGED <<cache, recommendation, loopExc, lastRequest, userThread, faultThread>>
    /\ UNCHANGED history
    /\ UNCHANGED nonOrchVars

\* stop(): running = False.
stop ==
    /\ running
    /\ running' = FALSE
    /\ UNCHANGED <<state, cache, recommendation, loopThread, lastRequest,
                   userThread, faultThread>>
    /\ UNCHANGED history
    /\ UNCHANGED nonOrchVars

\* while self.running: false, start() returns.
LoopExit ==
    /\ loopPc = "cycle"
    /\ ~running
    /\ loopPc' = "exited"
    /\ UNCHANGED <<state, running, cache, recommendation, loopExc, lastRequest,
                   userThread, faultThread>>
    /\ UNCHANGED history
    /\ UNCHANGED nonOrchVars

\* The exception leaves start(): the thread ends.
ExceptionEscapes(exc) == [state |-> state, loopPc |-> "exited", loopExc |-> exc]

\* except Exception in start(): state = ERROR, then
\* sleep(error_retry_delay_sec) and the next iteration.
OnCycleException(exc) == [state |-> "ERROR", loopPc |-> "err_sleep", loopExc |-> exc]

\* _run_cycle returned: sleep(poll_interval_sec).
CycleReturns == loopPc' = "sleep" /\ loopExc' = NONE

CycleRaises(exc) ==
    LET h == OnCycleException(exc)
    IN /\ state' = h.state
       /\ loopPc' = h.loopPc
       /\ loopExc' = h.loopExc

CycleBegins == loopPc = "cycle" /\ running

\* state == MONITORING: _handle_monitoring.
_handle_monitoring ==
    /\ CycleBegins
    /\ state = "MONITORING"
    /\ \E raw \in RawVehicleData, resample \in RawVehicleData :
          LET ctx == build_vehicle_context(raw)
          IN /\ cache' = [cache EXCEPT !.current_vehicle_context = Some(ctx)]
             /\ state' = IF should_trigger_charging(ctx, resample)
                         THEN "REQUESTING_STATIONS" ELSE state
    /\ CycleReturns
    /\ UNCHANGED <<running, recommendation, lastRequest, userThread, faultThread>>
    /\ UNCHANGED history
    /\ UNCHANGED nonOrchVars

\* state == REQUESTING_STATIONS: _request_stations_from_ca up to the POST of
\* send_charging_request.
_request_stations_from_ca ==
    /\ CycleBegins
    /\ state = "REQUESTING_STATIONS"
    /\ loopPc' = "ca_request"
    /\ UNCHANGED <<state, running, cache, recommendation, loopExc, lastRequest,
                   userThread, faultThread>>
    /\ UNCHANGED history
    /\ UNCHANGED nonOrchVars

\* send_charging_request returned or raised: the rest of
\* _request_stations_from_ca.
RequestStationsReturn ==
    /\ loopPc = "ca_request"
    /\ \E outcomes \in PostOutcomes, ranked_stations \in RankedLists :
          IF ~PostWithRetry(outcomes).ok
          THEN /\ state' = "MONITORING"
               /\ lastRequest' = "failed"
               /\ cache' = cache
               /\ UNCHANGED recommendation
          ELSE IF ranked_stations = <<>>
          THEN /\ state' = "MONITORING"
               /\ lastRequest' = "empty"
               /\ cache' = cache
               /\ UNCHANGED recommendation
          ELSE /\ cache' = [cache EXCEPT !.ranked_stations_cache = Some(ranked_stations)]
               /\ rm_ranked_stations' = ranked_stations
               /\ rm_deferred' = FALSE
               /\ published' = ranked_stations
               /\ state' = "AWAITING_USER_SELECTION"
               /\ lastRequest' = "stations"
    /\ CycleReturns
    /\ UNCHANGED <<running, userThread, faultThread>>
    /\ UNCHANGED history
    /\ UNCHANGED nonOrchVars

\* state == AWAITING_USER_SELECTION or DEFERRED: pass.
CycleWaiting ==
    /\ CycleBegins
    /\ state \in {"AWAITING_USER_SELECTION", "DEFERRED"}
    /\ CycleReturns
    /\ UNCHANGED <<state, running, cache, recommendation, lastRequest,
                   userThread, faultThread>>
    /\ UNCHANGED history
    /\ UNCHANGED nonOrchVars

\* state == RESERVATION_CONFIRMED: _start_session_monitoring calls
\* session_monitor.start_session_monitoring(reservation) without the
\* station_location the method requires: the call raises TypeError.
_start_session_monitoring ==
    /\ CycleBegins
    /\ state = "RESERVATION_CONFIRMED"
    /\ CycleRaises("TypeError")
    /\ UNCHANGED <<running, cache, recommendation, lastRequest, userThread,
                   faultThread>>
    /\ UNCHANGED history
    /\ UNCHANGED nonOrchVars

\* state is IDLE or ERROR: no branch of _run_cycle matches.
CycleNoBranch ==
    /\ CycleBegins
    /\ state \in {"IDLE", "ERROR"}
    /\ CycleReturns
    /\ UNCHANGED <<state, running, cache, recommendation, lastRequest,
                   userThread, faultThread>>
    /\ UNCHANGED history
    /\ UNCHANGED nonOrchVars

\* time.sleep(poll_interval_sec) is over.
PollSleepDone ==
    /\ loopPc = "sleep"
    /\ loopPc' = "cycle"
    /\ UNCHANGED <<state, running, cache, recommendation, loopExc, lastRequest,
                   userThread, faultThread>>
    /\ UNCHANGED history
    /\ UNCHANGED nonOrchVars

\* time.sleep(error_retry_delay_sec) is over.
ErrorSleepDone ==
    /\ loopPc = "err_sleep"
    /\ loopPc' = "cycle"
    /\ loopExc' = NONE
    /\ UNCHANGED <<state, running, cache, recommendation, lastRequest,
                   userThread, faultThread>>
    /\ UNCHANGED history
    /\ UNCHANGED nonOrchVars

\* The action strings and station ids the UI may send.
UserActions == {"ACCEPT", "REJECT", "DEFER", "accept", "defer", "SNOOZE"}
StationArgs == StationIds \cup {NONE}

\* handle_user_action(action, station_id): with self._lock, validation by
\* the recommendation manager, then the branch on the action as given. An
\* ACCEPT goes on into _confirm_reservation, up to the POST of
\* confirm_station_selection, still holding the lock.
handle_user_action(action, station_id) ==
    /\ userPc = "idle"
    /\ lock = NONE
    /\ LET result == handle_user_selection(action, station_id,
                                           rm_ranked_stations, rm_deferred)
       IN IF result.error # NONE
          THEN /\ userResult' = result.error
               /\ UNCHANGED <<state, rm_deferred, userPc, userArg, userBefore, lock>>
          ELSE /\ rm_deferred' = result.deferred
               /\ IF action = "ACCEPT" /\ station_id # NONE
                  THEN /\ userPc' = "confirm"
                       /\ userArg' = station_id
                       /\ userBefore' = cache.active_reservation
                       /\ lock' = "user"
                       /\ userResult' = "pending"
                       /\ UNCHANGED state
                  ELSE /\ state' = IF action = "DEFER" THEN "DEFERRED" ELSE state
                       /\ userResult' = "returned"
                       /\ UNCHANGED <<userPc, userArg, userBefore, lock>>
    /\ UNCHANGED <<running, cache, rm_ranked_stations, published, loopThread,
                   lastRequest, faultThread>>
    /\ UNCHANGED history
    /\ UNCHANGED nonOrchVars

\* _confirm_reservation without its try/except: a failed confirmation
\* raises out of the method and self.state is left as it is.
ConfirmReservationUncaught(c, st, station_id, outcomes, rid) ==
    IF PostWithRetry(outcomes).ok
    THEN [cache |-> [c EXCEPT !.active_reservation =
                                  Some(ReservationOf(rid, station_id))],
          state |-> "RESERVATION_CONFIRMED", raised |-> FALSE]
    ELSE [cache |-> c, state |-> st, raised |-> TRUE]

\* _confirm_reservation(station_id) from the return of
\* confirm_station_selection on: the reservation is stored and the state is
\* RESERVATION_CONFIRMED, or the except block sets MONITORING.
_confirm_reservation(c, st, station_id, outcomes, rid) ==
    IF PostWithRetry(outcomes).ok
    THEN [cache |-> [c EXCEPT !.active_reservation =
                                  Some(ReservationOf(rid, station_id))],
          state |-> "RESERVATION_CONFIRMED", raised |-> FALSE]
    ELSE [cache |-> c, state |-> "MONITORING", raised |-> FALSE]

\* confirm_station_selection returned rid or raised after the attempts
\* outcomes: the rest of _confirm_reservation, and the lock is released.
ConfirmReturn(outcomes, rid) ==
    /\ userPc = "confirm"
    /\ LET r == _confirm_reservation(cache, state, userArg, outcomes, rid)
       IN /\ cache' = r.cache
          /\ state' = r.state
          /\ userResult' = IF r.raised THEN "RemoteUnavailable" ELSE "returned"
          /\ faultHandled' = IF r.state = "RESERVATION_CONFIRMED"
                             THEN NONE ELSE faultHandled
    /\ userPc' = "idle"
    /\ userArg' = NONE
    /\ userBefore' = None
    /\ lock' = NONE
    /\ alertInAccept' = "no"
    /\ UNCHANGED <<running, recommendation, loopThread, lastRequest, faultThread,
                   microResult>>
    /\ UNCHANGED nonOrchVars

ConfirmReservationReturn ==
    \E outcomes \in PostOutcomes, rid \in ReservationIds :
        ConfirmReturn(outcomes, rid)

FaultSeverities == {"LOW", "MEDIUM", "CRITICAL"}

\* SessionMonitor.handle_fault: cancellation is required for CRITICAL only.
handle_fault(severity) == severity = "CRITICAL"

\* handle_fault_alert(alert) up to the POST of request_slot_cancellation.
\* A fault that is not CRITICAL is only logged. With no active reservation
\* the argument self.cache.active_reservation.reservation_id raises
\* AttributeError before anything is sent. The handler takes no lock.
handle_fault_alert(severity) ==
    /\ faultPc = "idle"
    /\ IF ~handle_fault(severity) \/ cache.active_reservation = None
       THEN UNCHANGED <<faultPc, faultArg, alertInAccept>>
       ELSE /\ faultPc' = "cancel"
            /\ faultArg' = Get(cache.active_reservation).reservation_id
            /\ alertInAccept' = IF userPc = "confirm" THEN "arrived" ELSE "no"
    /\ UNCHANGED <<state, running, cache, recommendation, loopThread,
                   lastRequest, userThread, microResult, faultHandled>>
    /\ UNCHANGED nonOrchVars

\* request_slot_cancellation returned (state = MONITORING) or raised (the
\* exception leaves handle_fault_alert).
FaultCancellationReturn ==
    /\ faultPc = "cancel"
    /\ \E outcomes \in PostOutcomes :
          IF PostWithRetry(outcomes).ok
          THEN /\ state' = "MONITORING"
               /\ faultHandled' =
                      IF state \in {"SESSION_ACTIVE", "SESSION_COMPLETED"}
                      THEN faultArg ELSE faultHandled
               /\ alertInAccept' =
                      IF alertInAccept = "arrived" THEN "forced" ELSE "no"
          ELSE /\ alertInAccept' = "no"
               /\ UNCHANGED <<state, faultHandled>>
    /\ faultPc' = "idle"
    /\ faultArg' = NONE
    /\ UNCHANGED <<running, cache, recommendation, loopThread, lastRequest,
                   userThread, microResult>>
    /\ UNCHANGED nonOrchVars

\* The slot ids and decisions the UI may send.
MicroSlotIds == {"M1"}
MicroSlotDecisions == {"ACCEPT", "REJECT"}

\* The decision is acted on locally: an accepted micro-slot is taken as the
\* confirmed reservation.
MicroSlotDecisionActsLocally(slot_id, decision) ==
    /\ microResult' = "TypeError"
    /\ state' = IF decision = "ACCEPT" THEN "RESERVATION_CONFIRMED" ELSE state
    /\ UNCHANGED <<running, cache, recommendation, loopThread, lastRequest,
                   userThread, faultThread, alertInAccept, faultHandled>>
    /\ UNCHANGED nonOrchVars

\* handle_micro_slot_decision(slot_id, decision): the call
\* sa_client.send_micro_slot_decision(slot_id, decision) lacks the
\* vehicle_id the method requires and raises TypeError before anything is
\* sent; the exception leaves the handler.
handle_micro_slot_decision(slot_id, decision) ==
    /\ microResult' = "TypeError"
    /\ UNCHANGED <<state, running, cache, recommendation, loopThread,
                   lastRequest, userThread, faultThread, alertInAccept,
                   faultHandled>>
    /\ UNCHANGED nonOrchVars

(***************************************************************************)
(* utils/retry_policy.py and CAClient._post_with_retry                     *)
(***************************************************************************)
initial_retry_delay == 1

\* The configurations a retried call runs under. RetryPolicy takes its
\* budget, first delay and factor from its constructor; CAClient takes the
\* budget and the first delay from UAConfig and doubles the delay. outcomes
\* says which attempts of the wrapped call succeed.
InitialDelays == {1, 2}
BackoffFactors == {2, 3}
RetryConfigs ==
    UNION {[client : {"RetryPolicy"}, max_attempts : {n},
            initial_delay : InitialDelays, backoff_factor : BackoffFactors,
            outcomes : [1..n -> BOOLEAN]] : n \in 1..MaxAttempts}
    \cup [client : {"CAClient"}, max_attempts : {max_retries},
          initial_delay : {initial_retry_delay}, backoff_factor : {2},
          outcomes : [1..max_retries -> BOOLEAN]]

\* No retried call is running.
RetryIdle ==
    /\ rp = None
    /\ rpPc = "idle"
    /\ rpCalls = 0
    /\ rpDelay = 0
    /\ rpSleeps = <<>>
    /\ rpResult = NONE

\* execute(func) / _post_with_retry(endpoint, payload) is entered:
\* delay = initial_delay, the loop starts.
InitRetry ==
    /\ \E c \in RetryConfigs :
          /\ rp = Some(c)
          /\ rpDelay = c.initial_delay
    /\ rpPc = "call"
    /\ rpCalls = 0
    /\ rpSleeps = <<>>
    /\ rpResult = NONE

\* The delay grows additively.
NextDelayAdditive(delay, factor) == delay + factor

\* delay *= self.backoff_factor
NextDelay(delay, factor) == delay * factor

\* The result of the k-th invocation of the wrapped call, when it succeeds.
ResultOfAttempt(k) == [returned |-> k]

\* One invocation of the wrapped call inside the try block: a success is
\* returned at once, a failure goes to the except block.
RetryCall ==
    /\ rpPc = "call"
    /\ rpCalls < Get(rp).max_attempts
    /\ rpCalls' = rpCalls + 1
    /\ IF Get(rp).outcomes[rpCalls + 1]
       THEN /\ rpResult' = ResultOfAttempt(rpCalls + 1)
            /\ rpPc' = "done"
       ELSE /\ rpPc' = "except"
            /\ UNCHANGED rpResult
    /\ UNCHANGED <<rp, rpDelay, rpSleeps>>
    /\ UNCHANGED nonRetryVars

\* The except block. RetryPolicy re-raises the exception of the last
\* attempt; otherwise (and always in CAClient) it sleeps delay and multiplies
\* it.
RetryExcept ==
    /\ rpPc = "except"
    /\ IF Get(rp).client = "RetryPolicy" /\ rpCalls = Get(rp).max_attempts
       THEN /\ rpResult' = [raised |-> rpCalls]
            /\ rpPc' = "done"
            /\ UNCHANGED <<rpDelay, rpSleeps>>
       ELSE /\ rpSleeps' = Append(rpSleeps, rpDelay)
            /\ rpDelay' = NextDelay(rpDelay, Get(rp).backoff_factor)
            /\ rpPc' = "call"
            /\ UNCHANGED rpResult
    /\ UNCHANGED <<rp, rpCalls>>
    /\ UNCHANGED nonRetryVars

\* The for loop of _post_with_retry is exhausted:
\* raise Exception("CA unreachable after retries").
RetryExhausted ==
    /\ rpPc = "call"
    /\ Get(rp).client = "CAClient"
    /\ rpCalls >= Get(rp).max_attempts
    /\ rpResult' = [raised |-> rpCalls]
    /\ rpPc' = "done"
    /\ UNCHANGED <<rp, rpCalls, rpDelay, rpSleeps>>
    /\ UNCHANGED nonRetryVars

NextRetry ==
    \/ RetryCall
    \/ RetryExcept
    \/ RetryExhausted

\* RetryPolicy with any integer as its budget: range(1, max_attempts + 1)
\* is empty for max_attempts <= 0.
AnyBudgetConfigs ==
    UNION {[client : {"RetryPolicy"}, max_attempts : {n},
            initial_delay : InitialDelays, backoff_factor : BackoffFactors,
            outcomes : [1..n -> BOOLEAN]] : n \in -1..MaxAttempts}

InitRetryAnyBudget ==
    /\ \E c \in AnyBudgetConfigs :
          /\ rp = Some(c)
          /\ rpDelay = c.initial_delay
    /\ rpPc = "call"
    /\ rpCalls = 0
    /\ rpSleeps = <<>>
    /\ rpResult = NONE

\* RetryPolicy.execute: the for loop ends without a return or a raise and
\* the method falls off its end, returning None.
RetryLoopEnds ==
    /\ rpPc = "call"
    /\ Get(rp).client = "RetryPolicy"
    /\ rpCalls >= Get(rp).max_attempts
    /\ rpResult' = [returned_none |-> rpCalls]
    /\ rpPc' = "done"
    /\ UNCHANGED <<rp, rpCalls, rpDelay, rpSleeps>>
    /\ UNCHANGED nonRetryVars

NextRetryAnyBudget ==
    \/ RetryCall
    \/ RetryExcept
    \/ RetryLoopEnds

\* The outbound remote calls of the agent: the client that makes each, the
\* endpoint, the configured retry budget, and which of the attempts the
\* remote side would answer successfully.
RemoteEndpoints ==
    [CAClient |-> {"charging_request", "confirm_station", "cancel_reservation",
                   "delay_report"},
     SAClient |-> {"delay_notification", "micro_slot_decision"},
     ServerSync |-> {"save_weights", "save_session", "process_sync_queue"}]
RemoteCalls ==
    UNION {[client : {c}, endpoint : RemoteEndpoints[c],
            max_attempts : {max_retries}, initial_delay : {initial_retry_delay},
            backoff_factor : {2}, outcomes : PostOutcomes] :
           c \in DOMAIN RemoteEndpoints}

\* One of the calls is entered: CAClient goes into _post_with_retry, the
\* other clients into the try block around their requests.post.
InitRemote ==
    /\ \E c \in RemoteCalls :
          /\ rp = Some(c)
          /\ rpPc = IF c.client = "CAClient" THEN "call" ELSE "post"
          /\ rpDelay = c.initial_delay
    /\ rpCalls = 0
    /\ rpSleeps = <<>>
    /\ rpResult = NONE

\* SAClient.send_delay_notification / send_micro_slot_decision: one POST;
\* the except block logs and re-raises.
SAClientPost ==
    /\ rpPc = "post"
    /\ Get(rp).client = "SAClient"
    /\ rpCalls' = rpCalls + 1
    /\ rpResult' = IF Get(rp).outcomes[rpCalls + 1]
                   THEN ResultOfAttempt(rpCalls + 1)
                   ELSE [raised |-> rpCalls + 1]
    /\ rpPc' = "done"
    /\ UNCHANGED <<rp, rpDelay, rpSleeps>>
    /\ UNCHANGED nonRetryVars

\* ServerSync.push_weights / push_session: one POST, the except block
\* enqueues the write; one entry in process_sync_queue: one POST, the
\* except block logs, sleeps one second and leaves the entry queued.
ServerSyncPost ==
    /\ rpPc = "post"
    /\ Get(rp).client = "ServerSync"
    /\ rpCalls' = rpCalls + 1
    /\ IF Get(rp).outcomes[rpCalls + 1]
       THEN /\ rpResult' = ResultOfAttempt(rpCalls + 1)
            /\ UNCHANGED rpSleeps
       ELSE IF Get(rp).endpoint = "process_sync_queue"
       THEN /\ rpResult' = [left_queued |-> rpCalls + 1]
            /\ rpSleeps' = Append(rpSleeps, 1)
       ELSE /\ rpResult' = [enqueued |-> rpCalls + 1]
            /\ UNCHANGED rpSleeps
    /\ rpPc' = "done"
    /\ UNCHANGED <<rp, rpDelay>>
    /\ UNCHANGED nonRetryVars

NextRemote ==
    \/ RetryCall
    \/ RetryExcept
    \/ RetryExhausted
    \/ SAClientPost
    \/ ServerSyncPost

\* History: no telemetry has been received for any reservation.
NoTelemetryYet == [r \in ReservationIds |-> NONE]

\* SessionMonitor.__init__ and PreferenceManager.__init__
SessIdle ==
    /\ sm_reservation = None
    /\ sm_station_location = None
    /\ sm_last_gps = None
    /\ sm_telemetry = NONE
    /\ sm_session_start_time = None
    /\ now = 0
    /\ sm_eta = None
    /\ sm_origin = [telemetry |-> NONE, gps |-> NONE, superseded |-> {},
                    latest |-> NoTelemetryYet]
    /\ pm_session_history = <<>>
    /\ pm_learned = <<>>

LoopStep ==
    \/ _handle_monitoring
    \/ _request_stations_from_ca
    \/ RequestStationsReturn
    \/ CycleWaiting
    \/ _start_session_monitoring
    \/ CycleNoBranch
    \/ PollSleepDone
    \/ ErrorSleepDone
    \/ LoopExit

Next ==
    \/ start
    \/ stop
    \/ LoopStep
    \/ \E action \in UserActions, station_id \in StationArgs :
          handle_user_action(action, station_id)
    \/ ConfirmReservationReturn
    \/ \E severity \in FaultSeverities : handle_fault_alert(severity)
    \/ FaultCancellationReturn
    \/ \E slot_id \in MicroSlotIds, decision \in MicroSlotDecisions :
          handle_micro_slot_decision(slot_id, decision)

Init == StoreIdle /\ ResIdle /\ InitOrch /\ SessIdle /\ RetryIdle /\ ContextIdle

Spec == Init /\ [][Next]_vars

\* The loop thread is scheduled again and again, and a remote call in
\* flight returns or runs out of its timeouts and attempts.
FairSpec ==
    /\ Spec
    /\ WF_vars(LoopStep)
    /\ WF_vars(ConfirmReservationReturn)
    /\ WF_vars(FaultCancellationReturn)

(***************************************************************************)
(* The charging session: Components/session_monitor.py, the session        *)
(* branches of _run_cycle and the preference manager                       *)
(***************************************************************************)
\* The session_status values the Station reports.
TelemetryStatuses == {"IN_PROGRESS", "COMPLETED"}

\* Instants of the clock and reserved start times (units of 30 seconds),
\* positions along a road (km), and the reservations a monitor is bound to.
Times == {0, 1, 30, 60}
StartTimes == {0, 2}
GpsSamples == {0, 20}
MonitorReservations ==
    [reservation_id : ReservationIds, station_id : {"S1"}, start_time : StartTimes]

\* int(x / d): Python's int() truncates toward zero.
IntTrunc(n, d) == IF n >= 0 THEN n \div d ELSE -((-n) \div d)

\* _haversine: the distance between two positions.
_haversine(loc1, loc2) == IF loc1 >= loc2 THEN loc1 - loc2 ELSE loc2 - loc1

\* _estimate_eta_minutes: int(distance_km / avg_speed_kmph * 60)
_estimate_eta_minutes(current, target) ==
    IntTrunc(_haversine(current, target) * 60, default_avg_speed_kmph)

\* SessionMonitor.start_session_monitoring(reservation, station_location):
\* the telemetry and the session start are reset, _last_gps is not.
start_session_monitoring(reservation, station_location) ==
    /\ sm_reservation' = Some(reservation)
    /\ sm_station_location' = Some(station_location)
    /\ sm_session_start_time' = None
    /\ sm_telemetry' = NONE
    /\ sm_origin' =
          [sm_origin EXCEPT
              !.telemetry = NONE,
              !.superseded =
                  (@ \cup (IF sm_reservation = None THEN {}
                           ELSE {Get(sm_reservation).reservation_id}))
                  \ {reservation.reservation_id}]
    /\ UNCHANGED <<sm_last_gps, now, sm_eta>>
    /\ UNCHANGED <<pm_session_history, pm_learned>>
    /\ UNCHANGED nonSessVars

\* delay_minutes of update_eta: int((utcnow() + eta - start_time) / 60 s)
DelayMinutes(t, current_gps, station_location, start_time) ==
    IntTrunc(t + 2 * _estimate_eta_minutes(current_gps, station_location)
               - start_time, 2)

\* The boundaries belong to the milder severity.
DelaySeverityStrict(delay_minutes) ==
    IF delay_minutes > no_show_threshold_min THEN "NO_SHOW"
    ELSE IF delay_minutes > major_delay_threshold_min THEN "MAJOR"
    ELSE "MINOR"

\* The severity branches of update_eta.
DelaySeverity(delay_minutes) ==
    IF delay_minutes >= no_show_threshold_min THEN "NO_SHOW"
    ELSE IF delay_minutes >= major_delay_threshold_min THEN "MAJOR"
    ELSE "MINOR"

\* SessionMonitor.update_eta(current_gps): None without a reservation or a
\* station location (the position is not recorded then) and when
\* delay_minutes <= 0, else the DelayResult.
update_eta(current_gps) ==
    /\ IF sm_reservation = None \/ sm_station_location = None
       THEN /\ sm_eta' = None
            /\ UNCHANGED <<sm_last_gps, sm_origin>>
       ELSE LET r == Get(sm_reservation)
                delay_minutes == DelayMinutes(now, current_gps,
                                              Get(sm_station_location), r.start_time)
            IN /\ sm_last_gps' = Some(current_gps)
               /\ sm_origin' = [sm_origin EXCEPT !.gps = r.reservation_id]
               /\ sm_eta' =
                     IF delay_minutes <= 0 THEN None
                     ELSE Some([reservation_id |-> r.reservation_id,
                                delay_minutes |-> delay_minutes,
                                severity |-> DelaySeverity(delay_minutes)])
    /\ UNCHANGED <<sm_reservation, sm_station_location, sm_telemetry,
                   sm_session_start_time, now>>
    /\ UNCHANGED <<pm_session_history, pm_learned>>
    /\ UNCHANGED nonSessVars

\* Every in-progress update sets the session start again.
LatchEveryTime(session_status, session_start_time, t) ==
    IF session_status = "IN_PROGRESS" THEN Some(t) ELSE session_start_time

\* if data.session_status == "IN_PROGRESS" and not self._session_start_time:
\*     self._session_start_time = datetime.utcnow()
Latch(session_status, session_start_time, t) ==
    IF session_status = "IN_PROGRESS" /\ session_start_time = None
    THEN Some(t) ELSE session_start_time

\* SessionMonitor.receive_telemetry(data). TelemetryData names no
\* reservation; sent_for is the one the Station sent it for.
receive_telemetry(session_status, sent_for) ==
    /\ sm_telemetry' = session_status
    /\ sm_session_start_time' = Latch(session_status, sm_session_start_time, now)
    /\ sm_origin' = [sm_origin EXCEPT !.telemetry = sent_for,
                                      !.latest[sent_for] = session_status]
    /\ UNCHANGED <<sm_reservation, sm_station_location, sm_last_gps, now, sm_eta>>
    /\ UNCHANGED <<pm_session_history, pm_learned>>
    /\ UNCHANGED nonSessVars

\* Time passes.
Tick ==
    /\ \E t \in Times : t > now /\ now' = t
    /\ UNCHANGED <<sm_reservation, sm_station_location, sm_last_gps, sm_telemetry,
                   sm_session_start_time, sm_eta, sm_origin>>
    /\ UNCHANGED <<pm_session_history, pm_learned>>
    /\ UNCHANGED nonSessVars

\* SessionMonitor.check_session_status
check_session_status == sm_telemetry # NONE /\ sm_telemetry = "COMPLETED"

\* SessionMonitor.detect_session_complete: None without a reservation or
\* telemetry, else the SessionResult of the reservation.
detect_session_complete ==
    IF sm_reservation = None \/ sm_telemetry = NONE THEN None
    ELSE LET r == Get(sm_reservation)
         IN Some([session_id |-> r.reservation_id,
                  reservation_id |-> r.reservation_id,
                  station_id |-> r.station_id,
                  actual_wait_min |->
                      IF sm_session_start_time = None THEN 0
                      ELSE Max2(IntTrunc(Get(sm_session_start_time) - r.start_time, 2), 0),
                  distance_km |->
                      IF sm_last_gps # None /\ sm_station_location # None
                      THEN _haversine(Get(sm_last_gps), Get(sm_station_location))
                      ELSE 0,
                  session_start |-> sm_session_start_time])

\* state == SESSION_ACTIVE: _monitor_session.
_monitor_session ==
    /\ CycleBegins
    /\ state = "SESSION_ACTIVE"
    /\ IF check_session_status
       THEN /\ cache' = [cache EXCEPT !.session_result = detect_session_complete]
            /\ state' = "SESSION_COMPLETED"
       ELSE UNCHANGED <<cache, state>>
    /\ CycleReturns
    /\ UNCHANGED <<running, recommendation, lastRequest, userThread, faultThread,
                   history>>
    /\ UNCHANGED nonOrchVars

\* _monitor_session statement by statement, for the other threads' writes
\* that land inside it. First statement: session_complete =
\* self.session_monitor.check_session_status(), and the test of it.
MonitorSessionCheck ==
    /\ CycleBegins
    /\ state = "SESSION_ACTIVE"
    /\ IF check_session_status
       THEN loopPc' = "session_complete" /\ loopExc' = loopExc
       ELSE CycleReturns
    /\ UNCHANGED <<state, running, cache, recommendation, lastRequest,
                   userThread, faultThread, history>>
    /\ UNCHANGED nonOrchVars

\* The body of the if: cache.session_result = detect_session_complete(),
\* state = SESSION_COMPLETED, whatever the state has become meanwhile.
MonitorSessionCapture ==
    /\ loopPc = "session_complete"
    /\ cache' = [cache EXCEPT !.session_result = detect_session_complete]
    /\ state' = "SESSION_COMPLETED"
    /\ CycleReturns
    /\ UNCHANGED <<running, recommendation, lastRequest, userThread, faultThread,
                   history>>
    /\ UNCHANGED nonOrchVars

\* PreferenceManager.record_session(result): the result joins the history.
record_session(session_history, result) == Append(session_history, result)

\* PreferenceManager.update_weights(session=result, chosen=...): the
\* learning rule is applied to the session.
update_weights(learned, result) == Append(learned, result)

\* LocalCache.clear_session_data
clear_session_data(c) ==
    [c EXCEPT !.active_reservation = None,
              !.current_session_telemetry = NONE,
              !.expected_arrival_time = NONE,
              !.pending_micro_slot_offer = NONE,
              !.session_result = None]

\* The reset empties the outbox and the session history as well.
ResetWorkflowDropsAll(c, q, h) ==
    [cache |-> clear_session_data(c), sync_queue |-> EmptyTable,
     session_history |-> <<>>, state |-> "MONITORING"]

\* _reset_workflow: cache.clear_session_data(), state = MONITORING. The
\* sync_queue table and the recorded sessions are passed through.
_reset_workflow(c, q, h) ==
    [cache |-> clear_session_data(c), sync_queue |-> q,
     session_history |-> h, state |-> "MONITORING"]

\* _finalize_session without its call of _reset_workflow.
FinalizeWithoutReset ==
    /\ CycleBegins
    /\ state = "SESSION_COMPLETED"
    /\ LET result == cache.session_result
       IN /\ pm_learned' = IF result # None
                           THEN update_weights(pm_learned, Get(result))
                           ELSE pm_learned
          /\ pm_session_history' =
                 IF result # None
                 THEN record_session(pm_session_history, Get(result))
                 ELSE pm_session_history
    /\ CycleReturns
    /\ UNCHANGED <<state, cache, sync_queue>>
    /\ UNCHANGED <<running, recommendation, lastRequest, userThread, faultThread,
                   history>>
    /\ UNCHANGED monitor
    /\ UNCHANGED <<sqlite_sequence, push, backend, accepted, assigned, removed,
                   postedOk, syncThread, crashes>>
    /\ UNCHANGED <<resVars, retryVars, contextVars>>

\* state == SESSION_COMPLETED: _finalize_session and _reset_workflow. The
\* result goes to the preference manager only: nothing here hands it to
\* ServerSync.push_session or to enqueue_sync.
_finalize_session ==
    /\ CycleBegins
    /\ state = "SESSION_COMPLETED"
    /\ LET result == cache.session_result
           recorded == IF result # None
                       THEN record_session(pm_session_history, Get(result))
                       ELSE pm_session_history
           reset == _reset_workflow(cache, sync_queue, recorded)
       IN /\ pm_learned' = IF result # None
                           THEN update_weights(pm_learned, Get(result))
                           ELSE pm_learned
          /\ cache' = reset.cache
          /\ sync_queue' = reset.sync_queue
          /\ pm_session_history' = reset.session_history
          /\ state' = reset.state
    /\ CycleReturns
    /\ UNCHANGED <<running, recommendation, lastRequest, userThread, faultThread,
                   history>>
    /\ UNCHANGED monitor
    /\ UNCHANGED <<sqlite_sequence, push, backend, accepted, assigned, removed,
                   postedOk, syncThread, crashes>>
    /\ UNCHANGED <<resVars, retryVars, contextVars>>

\* The orchestrator as _start_session_monitoring is written to leave it:
\* a reservation confirmed for a station of the list, the session monitor
\* holding it, state SESSION_ACTIVE, the loop at its next cycle.
InitSession ==
    /\ StoreIdle
    /\ ResIdle
    /\ RetryIdle
    /\ ContextIdle
    /\ pm_session_history = <<>>
    /\ pm_learned = <<>>
    /\ sm_station_location = None
    /\ sm_last_gps = None
    /\ sm_telemetry = NONE
    /\ sm_session_start_time = None
    /\ now = 0
    /\ sm_eta = None
    /\ sm_origin = [telemetry |-> NONE, gps |-> NONE, superseded |-> {},
                    latest |-> NoTelemetryYet]
    /\ \E ranked \in RankedLists \ {<<>>}, i \in 1..2, rid \in ReservationIds,
          raw \in RawVehicleData :
          /\ i <= Len(ranked)
          /\ sm_reservation = Some(ReservationOf(rid, ranked[i]))
          /\ cache = [EmptyCache EXCEPT
                         !.current_vehicle_context = Some(build_vehicle_context(raw)),
                         !.ranked_stations_cache = Some(ranked),
                         !.active_reservation = Some(ReservationOf(rid, ranked[i]))]
          /\ rm_ranked_stations = ranked
          /\ published = ranked
    /\ state = "SESSION_ACTIVE"
    /\ running = TRUE
    /\ rm_deferred = FALSE
    /\ lock = NONE
    /\ loopPc = "cycle"
    /\ loopExc = NONE
    /\ lastRequest = "stations"
    /\ userPc = "idle"
    /\ userArg = NONE
    /\ userResult = "returned"
    /\ userBefore = None
    /\ faultPc = "idle"
    /\ faultArg = NONE
    /\ alertInAccept = "no"
    /\ microResult = "none"
    /\ faultHandled = NONE

\* The loop thread and the Station's telemetry during and after a session.
NextSession ==
    \/ \E session_status \in TelemetryStatuses, sent_for \in ReservationIds :
          receive_telemetry(session_status, sent_for)
    \/ push_weights
    \/ PushPostOk
    \/ PushPostFail
    \/ _monitor_session
    \/ _finalize_session
    \/ _handle_monitoring
    \/ _request_stations_from_ca
    \/ RequestStationsReturn
    \/ CycleWaiting
    \/ PollSleepDone
    \/ stop
    \/ LoopExit

SpecSession == InitSession /\ [][NextSession]_vars

\* One session and everything that can happen to it, up to the cycle that
\* finds the state MONITORING again (from there on the loop is that of
\* Spec): the loop thread statement by statement through _monitor_session,
\* the Station's telemetry, the user's decisions and the fault alerts.
NextSessionEvents ==
    \/ \E session_status \in TelemetryStatuses, sent_for \in ReservationIds :
          receive_telemetry(session_status, sent_for)
    \/ MonitorSessionCheck
    \/ MonitorSessionCapture
    \/ _finalize_session
    \/ CycleWaiting
    \/ _start_session_monitoring
    \/ CycleNoBranch
    \/ PollSleepDone
    \/ ErrorSleepDone
    \/ \E action \in UserActions, station_id \in StationArgs :
          handle_user_action(action, station_id)
    \/ ConfirmReservationReturn
    \/ \E severity \in FaultSeverities : handle_fault_alert(severity)
    \/ FaultCancellationReturn

\* One session under way: the list the reservation was chosen from is the
\* full one, and the vehicle context, which no step of the session reads,
\* is that of one sample.
InitSessionEvents ==
    /\ InitSession
    /\ rm_ranked_stations = <<"S1", "S2">>
    /\ \A raw \in RawVehicleData :
          cache.current_vehicle_context = Some(build_vehicle_context(raw)) =>
              /\ raw.state_of_charge = 8
              /\ raw.remaining_range_km = 120
              /\ raw.destination = None

SpecSessionEvents == InitSessionEvents /\ [][NextSessionEvents]_vars

\* The SessionMonitor by itself, from its construction: its methods are
\* called in any order, with any arguments.
NextMonitor ==
    \/ \E reservation \in MonitorReservations, station_location \in GpsSamples :
          start_session_monitoring(reservation, station_location)
    \/ \E current_gps \in GpsSamples : update_eta(current_gps)
    \/ \E session_status \in TelemetryStatuses, sent_for \in ReservationIds :
          receive_telemetry(session_status, sent_for)
    \/ Tick

InitMonitorSpec ==
    StoreIdle /\ ResIdle /\ OrchIdle /\ SessIdle /\ RetryIdle /\ ContextIdle

SpecMonitor == InitMonitorSpec /\ [][NextMonitor]_vars

InitContextSpec ==
    StoreIdle /\ ResIdle /\ OrchIdle /\ SessIdle /\ RetryIdle /\ InitContext

SpecContext == InitContextSpec /\ [][NextContext]_vars

InitStoreSpec ==
    InitStore /\ ResIdle /\ OrchIdle /\ SessIdle /\ RetryIdle /\ ContextIdle

InitReservationSpec ==
    StoreIdle /\ InitReservation /\ OrchIdle /\ SessIdle /\ RetryIdle /\ ContextIdle

InitRetrySpec ==
    StoreIdle /\ ResIdle /\ OrchIdle /\ SessIdle /\ InitRetry /\ ContextIdle

SpecRetry == InitRetrySpec /\ [][NextRetry]_vars

InitRetryAnyBudgetSpec ==
    StoreIdle /\ ResIdle /\ OrchIdle /\ SessIdle /\ InitRetryAnyBudget /\ ContextIdle

SpecRetryAnyBudget == InitRetryAnyBudgetSpec /\ [][NextRetryAnyBudget]_vars

InitRemoteSpec ==
    StoreIdle /\ ResIdle /\ OrchIdle /\ SessIdle /\ InitRemote /\ ContextIdle

SpecRemote == InitRemoteSpec /\ [][NextRemote]_vars

SpecStore == InitStoreSpec /\ [][NextStore]_vars

\* sync_worker: while running, process_sync_queue and sleep, inside a
\* try/except: the thread keeps taking its steps.
SyncWorkerStep ==
    \/ SyncPassBegin
    \/ SyncPostOk
    \/ SyncPostFail
    \/ SyncRemove
    \/ SyncPassEnd
    \/ SyncPassRaises

\* The writers and the sync worker of one process run, with no restart.
NextOutbox ==
    \/ push_weights
    \/ push_session
    \/ PushPostOk
    \/ PushPostFail
    \/ SyncWorkerStep

FairSpecStore ==
    InitStoreSpec /\ [][NextOutbox]_vars /\ WF_vars(SyncWorkerStep)

SpecReservation == InitReservationSpec /\ [][NextReservation]_vars

(***************************************************************************)
(* Properties of the reservation status machine                            *)
(***************************************************************************)
SpecTransitions ==
    {<<"CONFIRMED", "mark_active">>, <<"ACTIVE", "mark_completed">>,
     <<"CONFIRMED", "mark_cancelled">>, <<"CONFIRMED", "mark_no_show">>}

TargetOf(op) ==
    CASE op = "mark_active" -> "ACTIVE"
      [] op = "mark_completed" -> "COMPLETED"
      [] op = "mark_cancelled" -> "CANCELLED"
      [] op = "mark_no_show" -> "NO_SHOW"

\* C1: the only status changes that succeed are CONFIRMED->ACTIVE,
\* ACTIVE->COMPLETED, CONFIRMED->CANCELLED and CONFIRMED->NO_SHOW; every other
\* mark_* call raises and leaves the status unchanged.
C1_OnlySpecTransitionsSucceed ==
    resCall.op # "none" =>
        IF <<resCall.before, resCall.op>> \in SpecTransitions
        THEN ~resCall.raised /\ res.status = TargetOf(resCall.op)
        ELSE resCall.raised /\ res.status = resCall.before

(***************************************************************************)
(* Properties of the store, the outbox and the sync pass                   *)
(***************************************************************************)
PendingIds == DOMAIN sync_queue

\* C3 (state part): an entry enqueue_sync has created is in the persisted
\* table, unchanged, until remove_sync_item is called for its id - also after
\* a crash and restart - and a removed id is not pending.
C3_EnqueuedStaysUntilRemoved ==
    /\ \A k \in 1..Len(assigned) :
          assigned[k].id \notin removed =>
              /\ assigned[k].id \in PendingIds
              /\ sync_queue[assigned[k].id] =
                     EnqueueRow(assigned[k].endpoint, assigned[k].payload)
    /\ \A id \in removed : id \notin PendingIds

\* C3 (step part): remove_sync_item(id) deletes the row of that id and
\* leaves every other row as it was.
C3_RemoveOnlyThatId ==
    \A id \in removed' \ removed :
        /\ DOMAIN sync_queue' = DOMAIN sync_queue \ {id}
        /\ \A j \in DOMAIN sync_queue' : sync_queue'[j] = sync_queue[j]

\* C3: once enqueue has returned the entry stays pending across crash and
\* restart until remove(id); after remove(id) no pending entry has that id
\* and all other pending entries are unchanged.
C3_OutboxDurable ==
    [](C3_EnqueuedStaysUntilRemoved) /\ [][C3_RemoveOnlyThatId]_vars

\* An entry enqueued before a crash is still pending after the restart, and
\* another entry has been removed.
C3_Witness ==
    /\ removed # {}
    /\ \E k \in 1..Len(assigned) :
          /\ assigned[k].epoch < crashes
          /\ assigned[k].id \in PendingIds

\* C4: log before send. At every point after push_weights / push_session
\* has taken a write and before the backend has acknowledged it - the points
\* at which a crash may strike - the write is pending in the outbox.
C4_LogBeforeSend ==
    \A w \in accepted :
        w \notin backend =>
            \E id \in PendingIds : sync_queue[id] = EnqueueRow(w[1], w[2])

\* C5 (step part): a row leaves the table only after the POST of a sync
\* pass for that id has succeeded.
C5_RemovedOnlyAfterPostOk ==
    \A id \in DOMAIN sync_queue \ DOMAIN sync_queue' : id \in postedOk

\* C5 (state part): at the end of a pass every entry whose delivery failed
\* is still in the table with the id, payload and endpoint of the snapshot.
C5_FailedStillPending ==
    syncPc = "sleep" =>
        \A i \in 1..Len(passLog) :
            ~passLog[i].ok =>
                /\ passLog[i].id = items[i][1]
                /\ passLog[i].id \in PendingIds
                /\ sync_queue[passLog[i].id] =
                       [payload |-> items[i][2], endpoint |-> items[i][3]]

\* C5: at-least-once delivery. An outbox entry is removed only after the
\* remote POST for that entry has succeeded; an entry whose delivery failed
\* is still pending, unchanged, at the end of the pass.
C5_AtLeastOnce ==
    [](C5_FailedStillPending) /\ [][C5_RemovedOnlyAfterPostOk]_vars

\* A finished pass in which one delivery failed and another one succeeded
\* and was removed.
C5_Witness ==
    /\ syncPc = "sleep"
    /\ \E i \in 1..Len(passLog) : ~passLog[i].ok
    /\ \E j \in 1..Len(passLog) : passLog[j].ok /\ passLog[j].id \in removed

\* The number of snapshot entries a pass has attempted so far.
AttemptsDue ==
    CASE syncPc = "sleep" -> Len(items)
      [] syncPc = "loop" -> idx - 1
      [] syncPc = "remove" -> idx

\* C6: within one pass every entry of the snapshot is attempted exactly
\* once, in snapshot order; a failure on entry N does not prevent the attempt
\* of entry N+1.
C6_EachAttemptedOnceInOrder ==
    /\ Len(passLog) = AttemptsDue
    /\ \A i \in 1..Len(passLog) : passLog[i].id = items[i][1]

\* A finished pass over two or more entries whose first delivery failed.
C6_Witness ==
    /\ syncPc = "sleep"
    /\ Len(items) >= 2
    /\ Len(passLog) >= 2
    /\ ~passLog[1].ok

\* The rows of assigned that are pending, in enqueue order, as the tuples
\* get_pending_sync_items returns.
PendingInEnqueueOrder ==
    LET live == SelectSeq(assigned, LAMBDA r : r.id \in PendingIds)
    IN [i \in 1..Len(live) |->
           <<live[i].id, JsonDumps(live[i].payload), live[i].endpoint>>]

SnapshotIds == {items[i][1] : i \in 1..Len(items)}

\* C34: with enqueues running concurrently with a sync pass, a row leaves
\* the outbox only during a pass, only if it is in that pass's snapshot and
\* only after the pass delivered it; an entry enqueued while the pass is in
\* progress is not in the snapshot and so stays pending for a later pass.
C34_PassRemovesOnlyOwnDelivered ==
    [][\A id \in DOMAIN sync_queue \ DOMAIN sync_queue' :
          /\ syncPc # "sleep"
          /\ id \in SnapshotIds
          /\ \E i \in 1..Len(passLog) : passLog[i].id = id /\ passLog[i].ok]_vars

\* A pass is in progress, it has removed an entry of its snapshot, and an
\* entry enqueued since the snapshot was taken is pending.
C34_Witness ==
    /\ syncPc # "sleep"
    /\ SnapshotIds \cap removed # {}
    /\ PendingIds \ SnapshotIds # {}

\* C35: eventual drain. While the sync worker keeps running and once the
\* backend accepts every delivery, every entry in the outbox is eventually
\* delivered and removed, and the outbox is empty again and again (for
\* good once nothing new is enqueued).
C35_EventualDrain ==
    <>[][~SyncPostFail]_vars =>
        /\ \A id \in 1..MaxWrites :
              (id \in PendingIds) ~> (id \in postedOk /\ id \in removed)
        /\ []<>(PendingIds = {})

\* Two entries were enqueued, both have been delivered and removed by the
\* worker's passes, and the outbox is empty.
C35_Witness ==
    /\ Len(assigned) >= 2
    /\ \A k \in 1..Len(assigned) :
          assigned[k].id \in postedOk /\ assigned[k].id \in removed
    /\ PendingIds = {}
    /\ syncPc = "sleep"

(***************************************************************************)
(* Properties of the orchestrator                                          *)
(***************************************************************************)
\* An ACCEPT (in whatever case) whose station_id is missing or not in the
\* last-published ranked list.
InvalidAccept(action, station_id) ==
    /\ Upper(action) = "ACCEPT"
    /\ \/ station_id = NONE
       \/ ~\E i \in 1..Len(published) : published[i] = station_id

\* C2: in every orchestrator state, handle_user_action(Accept, station_id)
\* with a station_id that is missing or not in the last-published ranked list
\* fails with a validation error, starts no confirm_selection call and leaves
\* the orchestrator state and the active reservation unchanged.
C2_InvalidAcceptRejected ==
    [][\A action \in UserActions, station_id \in StationArgs :
          (InvalidAccept(action, station_id)
              /\ handle_user_action(action, station_id)) =>
                /\ userResult' \in {"StationIdRequired", "NotInCAList"}
                /\ userPc' = "idle"
                /\ lock' = NONE
                /\ state' = state
                /\ cache' = cache]_vars

\* An ACCEPT was refused as not in the list while a list is on display.
C2_Witness ==
    /\ userResult = "NotInCAList"
    /\ Len(published) > 0
    /\ state = "AWAITING_USER_SELECTION"

\* C8: whenever the orchestrator is in ERROR while the loop is running, it
\* eventually returns to MONITORING; at the least ERROR is not a state the
\* running loop stays in forever.
C8_ErrorSelfHeals ==
    (state = "ERROR" /\ running) ~> (state # "ERROR" \/ ~running)

\* C9: an exception raised inside a cycle sets the state to ERROR and does
\* not end the loop: the thread goes through the error backoff to the next
\* cycle, and start() returns only after stop().
C9_ExceptionKeepsLoop ==
    [][/\ (loopExc = NONE /\ loopExc' # NONE) =>
              (state' = "ERROR" /\ loopPc' = "err_sleep" /\ running' = running)
       /\ (loopPc = "err_sleep" /\ loopPc' # loopPc) => loopPc' = "cycle"
       /\ (loopPc # "exited" /\ loopPc' = "exited") => ~running]_vars

\* After an exception and the backoff the loop is at its next cycle.
C9_Witness ==
    /\ state = "ERROR"
    /\ loopPc = "cycle"
    /\ running

\* C10: when the charging request returns no stations or fails after all
\* retry attempts, the state returns to MONITORING, no ranked list is cached
\* in the store or the recommendation manager after the cycle, and no outbox
\* entry is created.
C10_NoStationsNothingCached ==
    [][(loopPc = "ca_request" /\ loopPc' # loopPc
            /\ lastRequest' \in {"empty", "failed"}) =>
          /\ state' = "MONITORING"
          /\ cache'.ranked_stations_cache = None
          /\ rm_ranked_stations' = <<>>
          /\ sync_queue' = sync_queue]_vars

\* C11: on the happy path (non-empty ranked list, ACCEPT of a listed
\* station, confirmation succeeded) the cycle that runs in
\* RESERVATION_CONFIRMED moves on to SESSION_ACTIVE and raises nothing, so
\* the path MONITORING, REQUESTING_STATIONS, AWAITING_USER_SELECTION,
\* RESERVATION_CONFIRMED, SESSION_ACTIVE, SESSION_COMPLETED, MONITORING never
\* passes through ERROR.
C11_HappyPathOrder ==
    [][(CycleBegins /\ loopPc' # loopPc /\ state = "RESERVATION_CONFIRMED") =>
          (state' = "SESSION_ACTIVE" /\ loopExc' = NONE)]_vars

\* The threads that write UAOrchestrator.state, and where each is between
\* its read of the state (or of the store) and its write of the state.
StateWriters == {"loop", "user", "fault"}
InStateSection(thread) ==
    CASE thread = "loop" -> loopPc = "ca_request"
      [] thread = "user" -> userPc = "confirm"
      [] thread = "fault" -> faultPc = "cancel"

\* C13: every write of the state is made under the one orchestrator lock,
\* so no two writers of the state are inside their read-modify-write
\* sections at the same time.
C13_StateWritersExclusive ==
    Cardinality({thread \in StateWriters : InStateSection(thread)}) <= 1

\* C14: the two handlers serialize; a CRITICAL fault alert that arrives
\* while an ACCEPT waits for the Coordinator's confirmation, and forces
\* MONITORING, is not overwritten by that ACCEPT's later write of
\* RESERVATION_CONFIRMED.
C14_FaultNotOverwrittenByAccept ==
    [][(userPc = "confirm" /\ userPc' = "idle" /\ alertInAccept = "forced") =>
          state' # "RESERVATION_CONFIRMED"]_vars

\* A remote call of the orchestrator's threads is in flight.
RemoteCallInFlight ==
    \/ loopPc = "ca_request"
    \/ userPc = "confirm"
    \/ faultPc = "cancel"

\* C15: no thread holds the orchestrator lock while a remote call is in
\* flight; in particular handle_user_action does not hold it during
\* confirm_selection and its retries.
C15_NoLockDuringRemoteCall == RemoteCallInFlight => lock = NONE

\* C16: handle_fault_alert with a CRITICAL alert issues a slot cancellation
\* for the active reservation and the state is MONITORING when the handler
\* finishes; an alert of any other severity issues no cancellation and
\* leaves the state unchanged.
C16_CriticalFaultForcesMonitoring ==
    [][/\ \A severity \in FaultSeverities :
             handle_fault_alert(severity) =>
                IF severity = "CRITICAL"
                THEN faultPc' = "cancel"
                ELSE faultPc' = "idle" /\ state' = state
       /\ (faultPc = "cancel" /\ faultPc' = "idle") =>
             state' = "MONITORING"]_vars

\* C17: REJECT leaves the state, the ranked list and the active reservation
\* unchanged; DEFER sets the state to DEFERRED and leaves the last-published
\* ranked list unchanged, so that an ACCEPT of a listed station still
\* validates.
C17_RejectDeferFrame ==
    [][\A action \in UserActions, station_id \in StationArgs :
          handle_user_action(action, station_id) =>
             /\ Upper(action) = "REJECT" =>
                   /\ state' = state
                   /\ rm_ranked_stations' = rm_ranked_stations
                   /\ published' = published
                   /\ cache' = cache
             /\ Upper(action) = "DEFER" =>
                   /\ state' = "DEFERRED"
                   /\ rm_ranked_stations' = rm_ranked_stations
                   /\ published' = published
                   /\ \A sid \in StationIds :
                         StationListed(published, sid) =>
                             AcceptError(rm_ranked_stations', sid) = NONE]_vars

\* C18: a cycle in AWAITING_USER_SELECTION or DEFERRED changes neither the
\* state nor the ranked list nor the store, and these two states are left
\* only by a user decision (not by a cycle and not by a fault alert); the
\* launch of the loop by start() is let pass.
C18_WaitingStatesTerminal ==
    [][/\ CycleWaiting =>
             /\ state' = state
             /\ rm_ranked_stations' = rm_ranked_stations
             /\ published' = published
             /\ cache' = cache
             /\ sync_queue' = sync_queue
       /\ (state \in {"AWAITING_USER_SELECTION", "DEFERRED"} /\ state' # state) =>
             \/ \E action \in UserActions, station_id \in StationArgs :
                   handle_user_action(action, station_id)
             \/ ConfirmReservationReturn
             \/ start]_vars

RECURSIVE Pow(_, _)
Pow(b, e) == IF e = 0 THEN 1 ELSE b * Pow(b, e - 1)

\* The attempts of the budget that succeed.
SuccessfulAttempts == {k \in 1..Get(rp).max_attempts : Get(rp).outcomes[k]}

\* C20: the retrying client invokes the wrapped call at most the budget
\* times, stops at and returns the result of the first successful attempt,
\* raises a terminal failure instead of returning a value when every attempt
\* of the budget fails, and sleeps initial_delay * backoff_factor^(k-1)
\* before attempt k+1.
C20_RetryBudgetAndBackoff ==
    /\ rpCalls <= Get(rp).max_attempts
    /\ \A k \in 1..Len(rpSleeps) :
          rpSleeps[k] = Get(rp).initial_delay * Pow(Get(rp).backoff_factor, k - 1)
    /\ rpPc = "call" => Len(rpSleeps) = rpCalls
    /\ rpPc = "done" =>
          IF SuccessfulAttempts = {}
          THEN /\ rpResult = [raised |-> Get(rp).max_attempts]
               /\ rpCalls = Get(rp).max_attempts
          ELSE /\ rpResult = ResultOfAttempt(SetMin(SuccessfulAttempts))
               /\ rpCalls = SetMin(SuccessfulAttempts)
               /\ Len(rpSleeps) = rpCalls - 1

\* A call that succeeded at its third attempt, after two backoff sleeps.
C20_Witness ==
    /\ rpPc = "done"
    /\ rpResult = ResultOfAttempt(3)
    /\ Len(rpSleeps) = 2
    /\ rpSleeps[2] > rpSleeps[1]

(***************************************************************************)
(* Properties of the remote clients                                        *)
(***************************************************************************)
\* C21: every outbound remote call (Coordinator, Station service, backend)
\* runs through the bounded retry: a call ends either with the result of a
\* successful attempt or after its whole attempt budget was used.
C21_EveryRemoteCallRetried ==
    rpPc = "done" =>
        \/ rpResult = ResultOfAttempt(rpCalls)
        \/ rpCalls >= Get(rp).max_attempts

(***************************************************************************)
(* Properties of the context manager's pure methods                        *)
(***************************************************************************)
\* C22: should_trigger_charging is the OR of its four conditions: true for
\* every context with state of charge <= the trigger threshold whatever the
\* other inputs are, and false exactly when the state of charge is above
\* the threshold, no destination is set or it is within the remaining
\* range, the manual flag is off and the scheduled trigger is disabled or
\* false.
C22_TriggerIsOrOfFour ==
    (cmCall # None /\ Get(cmCall).method = "should_trigger_charging"
        /\ cmResult # None) =>
        LET ctx == Get(cmCall).ctx
            noTrigger ==
                /\ ctx.state_of_charge > soc_trigger_threshold
                /\ \/ ctx.destination = None
                   \/ Get(ctx.destination) <= ctx.remaining_range_km
                /\ ~Get(cmCall).user_trigger
                /\ ~enable_scheduled_trigger \/ ~scheduled_departure_trigger
        IN /\ ctx.state_of_charge <= soc_trigger_threshold => Get(cmResult) = TRUE
           /\ Get(cmResult) = FALSE <=> noTrigger

\* A context exactly at the trigger threshold, with nothing else asking
\* for a charge, triggers.
C22_Witness ==
    /\ cmCall # None
    /\ Get(cmCall).method = "should_trigger_charging"
    /\ Get(cmCall).ctx.state_of_charge = soc_trigger_threshold
    /\ Get(cmCall).ctx.destination = None
    /\ ~Get(cmCall).user_trigger
    /\ cmResult = Some(TRUE)

UrgencyRank(tier) ==
    CASE tier = "EMERGENCY" -> 3
      [] tier = "HIGH" -> 2
      [] tier = "MEDIUM" -> 1
      [] tier = "LOW" -> 0

UrgencyTier(soc, e, h, m) ==
    CASE soc <= e -> "EMERGENCY"
      [] e < soc /\ soc <= h -> "HIGH"
      [] h < soc /\ soc <= m -> "MEDIUM"
      [] OTHER -> "LOW"

\* C23: for every state of charge and thresholds e < h < m the urgency is
\* EMERGENCY if soc <= e, HIGH if e < soc <= h, MEDIUM if h < soc <= m and
\* LOW otherwise, and no lower state of charge gets a less urgent tier.
C23_UrgencyStepFunction ==
    (cmCall # None /\ cmResult # None
        /\ Get(cmCall).method \in {"ContextManager.compute_urgency",
                                   "VehicleContext.compute_urgency"}) =>
        LET soc == Get(cmCall).soc
            t == Get(cmCall).thresholds
            lower(x) == IF Get(cmCall).method = "ContextManager.compute_urgency"
                        THEN compute_urgency(x)
                        ELSE vc_compute_urgency(x, t[1], t[2], t[3])
        IN /\ Get(cmResult) = UrgencyTier(soc, t[1], t[2], t[3])
           /\ \A x \in SocValues :
                 x <= soc => UrgencyRank(lower(x)) >= UrgencyRank(Get(cmResult))

\* Both methods evaluated exactly at a boundary: the stricter tier.
C23_Witness ==
    /\ cmCall # None
    /\ Get(cmCall).method = "VehicleContext.compute_urgency"
    /\ Get(cmCall).soc = Get(cmCall).thresholds[2]
    /\ cmResult = Some("HIGH")

(***************************************************************************)
(* Properties of the session monitor                                       *)
(***************************************************************************)
\* C24: for a bound monitor, update_eta returns no result when
\* delay_minutes <= 0, and otherwise MINOR for 0 < delay_minutes <
\* major threshold, MAJOR from the major threshold up to below the no-show
\* threshold and NO_SHOW from the no-show threshold on; the result is
\* determined by the current call's position, clock and bound reservation,
\* whatever earlier calls recorded.
C24_DelayClassification ==
    [][\A current_gps \in GpsSamples :
          (update_eta(current_gps) /\ sm_reservation # None
              /\ sm_station_location # None) =>
             LET d == DelayMinutes(now, current_gps, Get(sm_station_location),
                                   Get(sm_reservation).start_time)
             IN IF d <= 0 THEN sm_eta' = None
                ELSE /\ sm_eta' # None
                     /\ Get(sm_eta').delay_minutes = d
                     /\ Get(sm_eta').severity =
                           IF d < major_delay_threshold_min THEN "MINOR"
                           ELSE IF d < no_show_threshold_min THEN "MAJOR"
                           ELSE "NO_SHOW"]_vars

\* A delay of exactly the major threshold was classified MAJOR.
C24_Witness ==
    /\ sm_eta # None
    /\ Get(sm_eta).delay_minutes = major_delay_threshold_min
    /\ Get(sm_eta).severity = "MAJOR"

Rebinds ==
    \E reservation \in MonitorReservations, station_location \in GpsSamples :
        start_session_monitoring(reservation, station_location)

\* C25: data of a superseded reservation never reaches the reservation the
\* monitor is bound to: telemetry sent for another reservation changes
\* neither the stored telemetry (the completion flag) nor the session-start
\* latch, and a position recorded under an earlier binding does not enter
\* the SessionResult of the current one.
C25_SupersededDataDiscarded ==
    /\ [][\A session_status \in TelemetryStatuses, sent_for \in ReservationIds :
            (receive_telemetry(session_status, sent_for)
                /\ sent_for \in sm_origin.superseded) =>
               UNCHANGED <<sm_telemetry, sm_session_start_time>>]_vars
    /\ [](detect_session_complete # None /\ sm_origin.gps \in sm_origin.superseded
          => Get(detect_session_complete).distance_km = 0)

\* C26: receive_telemetry stores the latest snapshot; the first in-progress
\* telemetry after binding sets the session start, and from then on no
\* step but a rebinding changes it.
C26_TelemetryLatch ==
    [][/\ \A session_status \in TelemetryStatuses, sent_for \in ReservationIds :
            receive_telemetry(session_status, sent_for) =>
               /\ sm_telemetry' = session_status
               /\ sm_session_start_time = None =>
                     sm_session_start_time' =
                        IF session_status = "IN_PROGRESS" THEN Some(now) ELSE None
       /\ (sm_session_start_time # None /\ ~Rebinds) =>
             UNCHANGED sm_session_start_time]_vars

\* The start was latched at an earlier instant and later telemetry, the
\* last of it reporting completion, has been stored since.
C26_Witness ==
    /\ sm_session_start_time # None
    /\ Get(sm_session_start_time) < now
    /\ sm_telemetry = "COMPLETED"

(***************************************************************************)
(* Properties of the store's session scope, the ranked list and ACCEPT     *)
(***************************************************************************)
\* C27: clearing the session scope (the reset at the end of a session)
\* resets only the session-transient in-memory fields: the pending outbox
\* entries are the same before and after, no recorded session is lost, and
\* the other in-memory fields keep their values.
C27_ClearKeepsOutboxAndHistory ==
    [][_finalize_session =>
          /\ sync_queue' = sync_queue
          /\ Len(pm_session_history') >= Len(pm_session_history)
          /\ SubSeq(pm_session_history', 1, Len(pm_session_history))
                = pm_session_history
          /\ cache' = [cache EXCEPT !.active_reservation = None,
                                    !.current_session_telemetry = NONE,
                                    !.expected_arrival_time = NONE,
                                    !.pending_micro_slot_offer = NONE,
                                    !.session_result = None]]_vars

\* A session was finalized, its result is recorded, the session fields are
\* cleared and the outbox holds a pending entry.
C27_Witness ==
    /\ pm_session_history # <<>>
    /\ DOMAIN sync_queue # {}
    /\ cache.session_result = None
    /\ cache.active_reservation = None
    /\ state = "MONITORING"

\* C28: once a list was published, the list held by the recommendation
\* manager and the store is the Coordinator's answer to the latest
\* successful charging request, element for element, and no other step
\* changes it.
C28_NoReRank ==
    [][IF RequestStationsReturn /\ lastRequest' = "stations"
       THEN /\ rm_ranked_stations' = published'
            /\ cache'.ranked_stations_cache = Some(published')
       ELSE IF RequestStationsReturn /\ lastRequest' = "empty" /\ published # <<>>
       THEN rm_ranked_stations' = <<>>
       ELSE /\ rm_ranked_stations' = rm_ranked_stations
            /\ cache'.ranked_stations_cache = cache.ranked_stations_cache]_vars

\* C29: an ACCEPT (in whatever case the validation accepts) of a station of
\* the last-published list starts one confirmation for that station, and
\* a confirmation the Coordinator answers stores the returned reservation
\* and sets RESERVATION_CONFIRMED.
C29_ListedAcceptConfirms ==
    [][/\ \A action \in UserActions, station_id \in StationIds :
            (handle_user_action(action, station_id) /\ Upper(action) = "ACCEPT"
                /\ StationListed(rm_ranked_stations, station_id)) =>
               /\ userPc' = "confirm"
               /\ userArg' = station_id
       /\ userPc = "confirm" =>
             \A outcomes \in PostOutcomes, rid \in ReservationIds :
                (PostWithRetry(outcomes).ok /\ ConfirmReturn(outcomes, rid)) =>
                   /\ cache'.active_reservation = Some(ReservationOf(rid, userArg))
                   /\ state' = "RESERVATION_CONFIRMED"]_vars

\* C30: when the confirmation of an ACCEPT fails after all its attempts,
\* the state is MONITORING, the store's active reservation is what it was
\* before the ACCEPT, handle_user_action returns normally and the lock is
\* free.
C30_ConfirmFailureFallsBack ==
    [][userPc = "confirm" =>
          \A outcomes \in PostOutcomes, rid \in ReservationIds :
             (~PostWithRetry(outcomes).ok /\ ConfirmReturn(outcomes, rid)) =>
                /\ state' = "MONITORING"
                /\ cache'.active_reservation = userBefore
                /\ userResult' = "returned"
                /\ userPc' = "idle"
                /\ lock' = NONE]_vars

\* The confirmation of the first ACCEPT has failed: the list is published,
\* no reservation is held, the handler has returned and the state is
\* MONITORING.
C30_Witness ==
    /\ userResult = "returned"
    /\ userPc = "idle"
    /\ lock = NONE
    /\ state = "MONITORING"
    /\ cache.active_reservation = None
    /\ lastRequest = "stations"
    /\ running

(***************************************************************************)
(* RetryPolicy.execute over every budget                                   *)
(***************************************************************************)
\* C39: for every budget, max_attempts <= 0 included, execute returns
\* normally only after it invoked the wrapped call and an invocation
\* succeeded, and it returns that invocation's result.
C39_ReturnsOnlyAfterSuccess ==
    (rpPc = "done" /\ rpResult # [raised |-> rpCalls]) =>
        /\ rpCalls >= 1
        /\ Get(rp).outcomes[rpCalls]
        /\ rpResult = ResultOfAttempt(rpCalls)

\* The loop thread takes the step of a cycle that the dispatch of
\* _run_cycle starts in the given state.
CycleStepIn(st) == CycleBegins /\ state = st /\ loopPc' # loopPc

\* C31: a cycle in RESERVATION_CONFIRMED with a reservation in the cache
\* binds the session monitor to that reservation and the location of its
\* station and ends in SESSION_ACTIVE, never in ERROR.
C31_ConfirmedCycleStartsSession ==
    [][(CycleStepIn("RESERVATION_CONFIRMED") /\ cache.active_reservation # None) =>
          /\ state' = "SESSION_ACTIVE"
          /\ sm_reservation' = cache.active_reservation
          /\ sm_station_location' # None]_vars

\* The reservation the session monitor is bound to.
BoundId == Get(sm_reservation).reservation_id

UserDecisionStep ==
    \E action \in UserActions, station_id \in StationArgs :
        handle_user_action(action, station_id)

\* C36: a user decision taken in a state other than
\* AWAITING_USER_SELECTION and DEFERRED leaves the state as it is and
\* starts no reservation.
C36_DecisionOnlyWhenAwaited ==
    [][(UserDecisionStep /\ state \notin {"AWAITING_USER_SELECTION", "DEFERRED"}) =>
          /\ state' = state
          /\ userPc' = "idle"
          /\ cache'.active_reservation = cache.active_reservation]_vars

\* C37: the cache holds an active reservation exactly in
\* RESERVATION_CONFIRMED, SESSION_ACTIVE and SESSION_COMPLETED.
C37_ReservationIffSessionStates ==
    (cache.active_reservation # None) <=>
        (state \in {"RESERVATION_CONFIRMED", "SESSION_ACTIVE", "SESSION_COMPLETED"})

====
